---- MODULE Spec2Model ----
(***************************************************************************)
(* Real-NVP coupling layers, flow chains and the training loop of the      *)
(* notebook nf-jax-sap.ipynb.                                              *)
(*                                                                         *)
(* Numbers.  The notebook computes in floating point.  Here a finite real  *)
(* is an exact rational <<n, d>> (d > 0, lowest terms), so that the        *)
(* algebra of the coupling map (multiply by exp(s), add the shift,         *)
(* subtract it, multiply by exp(-s)) is computed, not assumed.  exp is     *)
(* taken to base 2 on integer arguments, which keeps exp(s) rational and   *)
(* keeps exp(s) * exp(-s) = 1 a fact that the arithmetic has to deliver.   *)
(* Rounding and overflow of the machine floats are not modelled; the loss  *)
(* of a training step, whose finiteness matters, is modelled by its class  *)
(* (negative, positive, inf, nan), see the trainer below.                  *)
(***************************************************************************)
EXTENDS Integers, Sequences, FiniteSets, TLC

VARIABLES
    \* ---- one coupling layer (nvp_forward / nvp_inverse) ----
    lx,        \* the input batch x (a sequence of rows, a row a sequence of reals)
    lp,        \* net_params of the conditioner
    lflip,     \* the flip flag
    lfwd,      \* locals of the nvp_forward call at its return, or None
    linv,      \* locals of the nvp_inverse call at its return, or None
    lpc,       \* position: "start", "forwarded", "inverted", "inverted_data"
    \* ---- a chain of layers (sample_nvp_chain / log_prob_nvp_chain) ----
    cn,        \* the chain length n given to init_nvp_chain
    cps,       \* ps: the parameters, one per layer
    ccs,       \* configs: one (shift_and_log_scale_fn, flip) per layer
    cx,        \* the base sample x
    cfwd,      \* the locals of every nvp_forward call of sample_nvp_chain, in call order
    cy,        \* the variable x of sample_nvp_chain (its result, once returned)
    cfn,       \* the log_prob_fn closure being called
    cz,        \* the argument of that call
    cframes,   \* the ildj of every log_prob_nvp call that awaits its inner call
    ctrace,    \* the nvp_inverse calls made so far, in call order: the parameters
               \* and flip each was made with, its argument and its results
    cret,      \* the value being returned
    cpc,       \* position in the chain run
    \* ---- the notebook's run: construction, training loop, sampling ----
    rng,       \* the global key
    hp,        \* the hyperparameters that shape the run: chains and epochs
    ndata,     \* X.shape[0], the number of target points
    noise,     \* noise = sample_n01(X.shape[0])
    gps,       \* ps
    gcs,       \* cs
    iters,     \* iters
    data_generator, \* the number of batches the generator has yielded
    opt_state, \* the optimizer state
    losses,    \* losses
    gi,        \* the next value of the loop variable i
    gl,        \* l, the loss the last step returned
    gy,        \* the variable x of the sample_nvp_chain call (then y)
    gk,        \* how many layers that call's loop has applied
    values,    \* values, the per-layer samples kept for the animation
    drawn,     \* every sample_n01 call so far: <<N, the batch returned>>
    pc         \* position in the notebook

lvars == <<lx, lp, lflip, lfwd, linv, lpc>>
cvars == <<cn, cps, ccs, cx, cfwd, cy, cfn, cz, cframes, ctrace, cret, cpc>>
tvars == <<rng, hp, ndata, noise, gps, gcs, iters, data_generator, opt_state,
           losses, gi, gl, gy, gk, values, drawn, pc>>
vars == <<lvars, cvars, tvars>>

None == "None"

\* ------------------------------------------------------------------ reals

Abs(a) == IF a < 0 THEN -a ELSE a

RECURSIVE GCD(_, _)
GCD(a, b) == IF b = 0 THEN a ELSE GCD(b, a % b)

\* the rational n/d in lowest terms with a positive denominator (d # 0)
Rat(n, d) ==
    LET s == IF d < 0 THEN -1 ELSE 1
        g == GCD(Abs(n), Abs(d))
    IN  <<(s * n) \div g, (s * d) \div g>>

Int2R(k) == <<k, 1>>
RAdd(a, b) ==
    LET g == GCD(a[2], b[2])
        l == (a[2] \div g) * b[2]
    IN  Rat(a[1] * (l \div a[2]) + b[1] * (l \div b[2]), l)
RNeg(a) == <<-a[1], a[2]>>
RSub(a, b) == RAdd(a, RNeg(b))
RMul(a, b) ==
    LET g1 == GCD(Abs(a[1]), b[2])
        g2 == GCD(Abs(b[1]), a[2])
    IN  Rat((a[1] \div g1) * (b[1] \div g2), (a[2] \div g2) * (b[2] \div g1))
Floor(a) == a[1] \div a[2]

RECURSIVE Pow2(_)
Pow2(k) == IF k = 0 THEN 1 ELSE 2 * Pow2(k - 1)

\* np.exp on an integer-valued real (base 2, see the header)
Exp(a) == IF a[1] >= 0 THEN <<Pow2(a[1]), 1>> ELSE <<1, Pow2(-a[1])>>

\* ------------------------------------------------------------ batch algebra

\* x[:, a-1:b] : columns a..b of every row
Cols(x, a, b) == [r \in 1..Len(x) |-> SubSeq(x[r], a, b)]

\* np.concatenate([a, b], axis=-1)
Concatenate(a, b) == [r \in 1..Len(a) |-> a[r] \o b[r]]

\* elementwise binary and unary operations on equally shaped batches
Map2(Op(_, _), a, b) ==
    [r \in 1..Len(a) |-> [c \in 1..Len(a[r]) |-> Op(a[r][c], b[r][c])]]
Map1(Op(_), a) ==
    [r \in 1..Len(a) |-> [c \in 1..Len(a[r]) |-> Op(a[r][c])]]

RECURSIVE SumSeq(_)
SumSeq(s) == IF s = <<>> THEN Int2R(0) ELSE RAdd(s[1], SumSeq(Tail(s)))

\* np.sum(a, axis=-1): one real per row
SumRows(a) == [r \in 1..Len(a) |-> SumSeq(a[r])]

\* ------------------------------------------------------------- conditioner

\* The range the conditioner's log-scale output is squashed to.
Squash(k) == IF k < -2 THEN -2 ELSE IF k > 2 THEN 2 ELSE k

\* net_apply(net_params, x1): the feed-forward network, row by row, from d
\* inputs to 2d outputs.  The stack of Dense and LeakyRelu layers is
\* represented by a small family of functions of x1: the first d outputs
\* are affine in x1, the last d are integer valued and bounded (so that exp
\* is exact and a chain of layers stays in range) and read x1 in reverse
\* column order, so that no two output columns agree by accident.
NetApply(net_params, x1) ==
    [r \in 1..Len(x1) |->
        LET d == Len(x1[r])
        IN  [j \in 1..(2 * d) |->
                IF j <= d
                THEN RAdd(RMul(Int2R(net_params.ws), x1[r][j]), Int2R(net_params.bs))
                ELSE Int2R(Squash(Floor(RAdd(RMul(Int2R(net_params.wl), x1[r][2 * d + 1 - j]),
                                             Int2R(net_params.bl)))))]]

\* shift_and_log_scale_fn: np.split(s, 2, axis=1)
ShiftAndLogScaleFn(net_params, x1) ==
    LET s == NetApply(net_params, x1)
        w == IF Len(s) = 0 THEN 0 ELSE Len(s[1]) \div 2
    IN  <<Cols(s, 1, w), Cols(s, w + 1, 2 * w)>>

\* ---------------------------------------------------------- coupling layer

\* nvp_forward: d = x.shape[-1] // 2; x1, x2 = x[:, :d], x[:, d:];
\* if flip: x2, x1 = x1, x2
ForwardSplit(x, flip) ==
    LET D == Len(x[1])
        d == D \div 2
    IN  IF flip THEN <<Cols(x, d + 1, D), Cols(x, 1, d)>>
                ELSE <<Cols(x, 1, d), Cols(x, d + 1, D)>>

\* nvp_forward: y2 = x2 * np.exp(log_scale) + shift
ForwardScale(x2, shift, log_scale) ==
    Map2(RAdd, Map2(RMul, x2, Map1(Exp, log_scale)), shift)

\* variant: the reassembly forgets the flip
ForwardJoin_NoSwap(x1, y2, flip) == Concatenate(x1, y2)

\* nvp_forward: if flip: x1, y2 = y2, x1; y = np.concatenate([x1, y2], axis=-1)
ForwardJoin(x1, y2, flip) ==
    IF flip THEN Concatenate(y2, x1) ELSE Concatenate(x1, y2)

\* nvp_forward, with its locals: cond_in is the argument the conditioner was
\* called with
NvpForwardLocals(net_params, x, flip) ==
    LET h == ForwardSplit(x, flip)
        sl == ShiftAndLogScaleFn(net_params, h[1])
    IN  [cond_in |-> h[1], shift |-> sl[1], log_scale |-> sl[2],
         y |-> ForwardJoin(h[1], ForwardScale(h[2], sl[1], sl[2]), flip)]

NvpForward(net_params, x, flip) == NvpForwardLocals(net_params, x, flip).y

\* variant: the split forgets the flip
InverseSplit_NoSwap(y, flip) ==
    LET D == Len(y[1])
        d == D \div 2
    IN  <<Cols(y, 1, d), Cols(y, d + 1, D)>>

\* nvp_inverse: d = y.shape[-1] // 2; y1, y2 = y[:, :d], y[:, d:];
\* if flip: y1, y2 = y2, y1
InverseSplit(y, flip) ==
    LET D == Len(y[1])
        d == D \div 2
    IN  IF flip THEN <<Cols(y, d + 1, D), Cols(y, 1, d)>>
                ELSE <<Cols(y, 1, d), Cols(y, d + 1, D)>>

\* variant: the inverse scales by exp(log_scale)
InverseScale_PosExp(y2, shift, log_scale) ==
    Map2(RMul, Map2(RSub, y2, shift), Map1(Exp, log_scale))

\* nvp_inverse: x2 = (y2 - shift) * np.exp(-log_scale)
InverseScale(y2, shift, log_scale) ==
    Map2(RMul, Map2(RSub, y2, shift), Map1(Exp, Map1(RNeg, log_scale)))

\* nvp_inverse: if flip: y1, x2 = x2, y1; x = np.concatenate([y1, x2], axis=-1)
InverseJoin(y1, x2, flip) ==
    IF flip THEN Concatenate(x2, y1) ELSE Concatenate(y1, x2)

\* nvp_inverse, with its locals
NvpInverseLocals(net_params, y, flip) ==
    LET h == InverseSplit(y, flip)
        sl == ShiftAndLogScaleFn(net_params, h[1])
    IN  [cond_in |-> h[1], shift |-> sl[1], log_scale |-> sl[2],
         x |-> InverseJoin(h[1], InverseScale(h[2], sl[1], sl[2]), flip)]

\* nvp_inverse returns (x, log_scale)
NvpInverse(net_params, y, flip) ==
    LET r == NvpInverseLocals(net_params, y, flip)
    IN  <<r.x, r.log_scale>>

\* ------------------------------------------------------------------ chain

\* random.PRNGKey(seed): a key is represented by its seed
PRNGKey(seed) == seed

\* net_init(rng, in_shape): the initial parameters are a function of the key alone
NetInit(key) ==
    [ws |-> 1 + (key % 2), bs |-> (key % 3) - 1, wl |-> 1 - 2 * (key % 2), bl |-> key % 2]

\* init_nvp(): reads the global rng and returns net_params (the function it
\* also returns is ShiftAndLogScaleFn, the same for every layer)
InitNvp(key) == <<NetInit(key), "shift_and_log_scale_fn">>

\* variant: the flip is never toggled
RECURSIVE InitNvpChainLoop_NoToggle(_, _, _, _, _, _)
InitNvpChainLoop_NoToggle(i, n, flip, ps, configs, key) ==
    IF i >= n
    THEN <<ps, configs>>
    ELSE LET pf == InitNvp(key)
         IN  InitNvpChainLoop_NoToggle(i + 1, n, flip, Append(ps, pf[1]),
                                       Append(configs, <<pf[2], flip>>), key)

\* variant: the loop tests its bound after the body
RECURSIVE InitNvpChainLoop_AtLeastOne(_, _, _, _, _, _)
InitNvpChainLoop_AtLeastOne(i, n, flip, ps, configs, key) ==
    LET pf == InitNvp(key)
    IN  IF i + 1 >= n
        THEN <<Append(ps, pf[1]), Append(configs, <<pf[2], flip>>)>>
        ELSE InitNvpChainLoop_AtLeastOne(i + 1, n, ~flip, Append(ps, pf[1]),
                                         Append(configs, <<pf[2], flip>>), key)

\* init_nvp_chain(n): the loop, from iteration i on (range(n) is 0..n-1)
RECURSIVE InitNvpChainLoop(_, _, _, _, _, _)
InitNvpChainLoop(i, n, flip, ps, configs, key) ==
    IF i >= n
    THEN <<ps, configs>>
    ELSE LET pf == InitNvp(key)
         IN  InitNvpChainLoop(i + 1, n, ~flip, Append(ps, pf[1]),
                              Append(configs, <<pf[2], flip>>), key)

InitNvpChain(n, key) == InitNvpChainLoop(0, n, FALSE, <<>>, <<>>, key)

Min(a, b) == IF a <= b THEN a ELSE b

\* log(sqrt(2 pi)) = 0.9189..., to three decimals
LogSqrt2Pi == <<919, 1000>>
Half == <<1, 2>>

\* log_prob_n01(x): np.sum(-np.square(x)/2 - np.log(np.sqrt(2*np.pi)), axis=-1)
NegHalfSquare(v) == RSub(RNeg(RMul(RMul(v, v), Half)), LogSqrt2Pi)
LogProbN01(x) == SumRows(Map1(NegHalfSquare, x))

\* A log-density function is either the base one or a closure made by
\* make_log_prob_fn, which captures p, the inner log_prob_fn and the config.
BaseLogProbFn == [tag |-> "base"]
MakeLogProbFn(p, log_prob_fn, config) ==
    [tag |-> "nvp", p |-> p, log_prob_fn |-> log_prob_fn, config |-> config]

\* variant: the loop wraps the layers from the last to the first
RECURSIVE WrapLogProbFn_LastFirst(_, _, _, _)
WrapLogProbFn_LastFirst(ps, configs, k, log_prob_fn) ==
    LET n == Min(Len(ps), Len(configs))
    IN  IF k > n
        THEN log_prob_fn
        ELSE WrapLogProbFn_LastFirst(ps, configs, k + 1,
                 MakeLogProbFn(ps[n + 1 - k], log_prob_fn, configs[n + 1 - k]))

\* the loop of log_prob_nvp_chain from position k of zip(ps, configs) on
RECURSIVE WrapLogProbFn(_, _, _, _)
WrapLogProbFn(ps, configs, k, log_prob_fn) ==
    IF k > Min(Len(ps), Len(configs))
    THEN log_prob_fn
    ELSE WrapLogProbFn(ps, configs, k + 1, MakeLogProbFn(ps[k], log_prob_fn, configs[k]))

\* the closure log_prob_nvp_chain calls on y
LogProbNvpChainFn(ps, configs) == WrapLogProbFn(ps, configs, 1, BaseLogProbFn)

\* variant: the sum of log_scale without the minus sign
Ildj_NoNeg(log_scale) == [r \in 1..Len(log_scale) |-> SumSeq(log_scale[r])]

\* log_prob_nvp: ildj = -np.sum(log_scale, axis=-1)
Ildj(log_scale) == [r \in 1..Len(log_scale) |-> RNeg(SumSeq(log_scale[r]))]

\* log_prob_nvp: base_log_prob_fn(x) + ildj, on the vectors of per-row values
AddIldj(inner, ildj) == [r \in 1..Len(inner) |-> RAdd(inner[r], ildj[r])]

\* ------------------------------------------------------------ input sets

\* Entries of the input batches: the integers -MaxVal..MaxVal.
MaxVal == 1
InputVals == {Int2R(v) : v \in (-MaxVal)..MaxVal}

\* The shapes (N, D) of the batches given to one layer; D is even.
LayerShapes == {<<1, 2>>, <<2, 2>>, <<1, 4>>}

BatchesOf(N, D) == [1..N -> [1..D -> InputVals]]
LayerBatches == UNION {BatchesOf(s[1], s[2]) : s \in LayerShapes}

ParamSet ==
    { [ws |-> 1, bs |-> 0, wl |-> 1, bl |-> 0],
      [ws |-> -1, bs |-> 2, wl |-> 1, bl |-> -1],
      [ws |-> 2, bs |-> -1, wl |-> -1, bl |-> 1] }

\* The base samples and the trained parameters a chain is run on.
ChainVals == {Int2R(-1), Int2R(0), Int2R(2)}
ChainBatches == [1..1 -> [1..2 -> ChainVals]] \cup [1..2 -> [1..2 -> ChainVals]]
ChainParamSet ==
    { [ws |-> 1, bs |-> -1, wl |-> 1, bl |-> 0],
      [ws |-> -1, bs |-> 2, wl |-> -1, bl |-> 1] }

\* The longest chain.
MaxLayers == 3

\* ------------------------------------------------- one layer: specification

LayerInit ==
    /\ lx \in LayerBatches
    /\ lp \in ParamSet
    /\ lflip \in BOOLEAN
    /\ lfwd = None
    /\ linv = None
    /\ lpc = "start"

\* y = nvp_forward(net_params, shift_and_log_scale_fn, x, flip)
Forward ==
    /\ lpc = "start"
    /\ lfwd' = NvpForwardLocals(lp, lx, lflip)
    /\ lpc' = "forwarded"
    /\ UNCHANGED <<lx, lp, lflip, linv>>
    /\ UNCHANGED <<cvars, tvars>>

\* x, log_scale = nvp_inverse(net_params, shift_and_log_scale_fn, y, flip)
Inverse ==
    /\ lpc = "forwarded"
    /\ linv' = NvpInverseLocals(lp, lfwd.y, lflip)
    /\ lpc' = "inverted"
    /\ UNCHANGED <<lx, lp, lflip, lfwd>>
    /\ UNCHANGED <<cvars, tvars>>

\* nvp_inverse applied to a data batch (as log_prob_nvp does), no forward before
InverseData ==
    /\ lpc = "start"
    /\ linv' = NvpInverseLocals(lp, lx, lflip)
    /\ lpc' = "inverted_data"
    /\ UNCHANGED <<lx, lp, lflip, lfwd>>
    /\ UNCHANGED <<cvars, tvars>>

LayerNext == Forward \/ Inverse \/ InverseData

\* the columns a layer leaves alone: the first half, or the last with flip
KeptCols(x, flip) ==
    LET D == Len(x[1])
        d == D \div 2
    IN  IF flip THEN Cols(x, d + 1, D) ELSE Cols(x, 1, d)

\* C1: nvp_inverse applied to nvp_forward(x), same parameters and flip,
\* returns x as its first component.
C1_RoundTrip == lpc = "inverted" => linv.x = lx

\* the round trip of a flipped layer on a two-row batch that forward changed
C1_Witness ==
    /\ lpc = "inverted" /\ lflip /\ Len(lx) = 2
    /\ lfwd.y # lx
    /\ \E r \in 1..Len(lx) : lfwd.log_scale[r][1] # Int2R(0)

\* C5: nvp_forward returns the half it does not transform unchanged (the
\* first D/2 columns without flip, the last D/2 with flip) and calls the
\* conditioner on exactly that half; the same holds for nvp_inverse.
C5_PassThrough ==
    /\ lpc \in {"forwarded", "inverted"} =>
          /\ KeptCols(lfwd.y, lflip) = KeptCols(lx, lflip)
          /\ lfwd.cond_in = KeptCols(lx, lflip)
    /\ lpc \in {"inverted", "inverted_data"} =>
          LET yin == IF lpc = "inverted" THEN lfwd.y ELSE lx
          IN  /\ KeptCols(linv.x, lflip) = KeptCols(yin, lflip)
              /\ linv.cond_in = KeptCols(yin, lflip)

\* a flipped forward call on four columns that changed the other half
C5_Witness ==
    /\ lpc = "forwarded" /\ lflip /\ Len(lx[1]) = 4
    /\ Cols(lfwd.y, 1, 2) # Cols(lx, 1, 2)

\* C6: the log_scale nvp_inverse returns on y = nvp_forward(x) is the
\* log_scale the conditioner produced inside that nvp_forward call.
C6_SameLogScale == lpc = "inverted" => linv.log_scale = lfwd.log_scale

\* a flipped round trip whose two rows got different, nonzero log-scales
C6_Witness ==
    /\ lpc = "inverted" /\ lflip /\ Len(lx) = 2
    /\ linv.log_scale[1] # linv.log_scale[2]
    /\ linv.log_scale[1][1] # Int2R(0)

\* ---------------------------------------------------- chain: specification

ChainInit ==
    /\ cn \in 0..MaxLayers
    /\ cx \in ChainBatches
    /\ cps = <<>>
    /\ ccs = <<>>
    /\ cfwd = <<>>
    /\ cy = <<>>
    /\ cfn = [tag |-> "none"]
    /\ cz = <<>>
    /\ cframes = <<>>
    /\ ctrace = <<>>
    /\ cret = <<>>
    /\ cpc = "start"

\* ps, cs = init_nvp_chain(n)
ChainConstruct ==
    /\ cpc = "start"
    /\ LET r == InitNvpChain(cn, PRNGKey(0))
       IN  cps' = r[1] /\ ccs' = r[2]
    /\ cpc' = "constructed"
    /\ UNCHANGED <<cn, cx, cfwd, cy, cfn, cz, cframes, ctrace, cret>>
    /\ UNCHANGED <<lvars, tvars>>

\* ps = get_params(opt_state): training leaves any parameters in the layers
ChainTrained ==
    /\ cpc = "constructed"
    /\ cps' \in [1..Len(cps) -> ChainParamSet]
    /\ cpc' = "trained"
    /\ UNCHANGED <<cn, ccs, cx, cfwd, cy, cfn, cz, cframes, ctrace, cret>>
    /\ UNCHANGED <<lvars, tvars>>

\* sample_nvp_chain(ps, cs, base_sample_fn, N): x = base_sample_fn(N), the
\* base sample being cx
ChainSampleCall ==
    /\ cpc \in {"constructed", "trained"}
    /\ cy' = cx
    /\ cfwd' = <<>>
    /\ cpc' = "sampling"
    /\ UNCHANGED <<cn, cps, ccs, cx, cfn, cz, cframes, ctrace, cret>>
    /\ UNCHANGED <<lvars, tvars>>

\* one iteration of its loop over zip(ps, configs)
ChainForwardStep ==
    /\ cpc = "sampling"
    /\ Len(cfwd) < Min(Len(cps), Len(ccs))
    /\ LET k == Len(cfwd) + 1
           f == NvpForwardLocals(cps[k], cy, ccs[k][2])
       IN  cfwd' = Append(cfwd, f) /\ cy' = f.y
    /\ UNCHANGED <<cn, cps, ccs, cx, cfn, cz, cframes, ctrace, cret, cpc>>
    /\ UNCHANGED <<lvars, tvars>>

\* the loop is over: return x
ChainSampleReturn ==
    /\ cpc = "sampling"
    /\ Len(cfwd) = Min(Len(cps), Len(ccs))
    /\ cpc' = "sampled"
    /\ UNCHANGED <<cn, cps, ccs, cx, cfwd, cy, cfn, cz, cframes, ctrace, cret>>
    /\ UNCHANGED <<lvars, tvars>>

\* log_prob_nvp_chain(ps, cs, log_prob_n01, y): the loop builds the closure,
\* and the return statement calls it on y
ChainLogProbCall ==
    /\ cpc = "sampled"
    /\ cfn' = LogProbNvpChainFn(cps, ccs)
    /\ cz' = cy
    /\ cpc' = "calling"
    /\ UNCHANGED <<cn, cps, ccs, cx, cfwd, cy, cframes, ctrace, cret>>
    /\ UNCHANGED <<lvars, tvars>>

\* a closure of make_log_prob_fn is called: log_prob_nvp inverts its layer
\* and calls the captured inner log_prob_fn on the result
CallNvp ==
    /\ cpc = "calling"
    /\ cfn.tag = "nvp"
    /\ LET r == NvpInverse(cfn.p, cz, cfn.config[2])
       IN  /\ ctrace' = Append(ctrace, [p |-> cfn.p, flip |-> cfn.config[2], in |-> cz,
                                        out |-> r[1], log_scale |-> r[2]])
           /\ cframes' = Append(cframes, Ildj(r[2]))
           /\ cz' = r[1]
    /\ cfn' = cfn.log_prob_fn
    /\ UNCHANGED <<cn, cps, ccs, cx, cfwd, cy, cret, cpc>>
    /\ UNCHANGED <<lvars, tvars>>

\* the innermost call: base_log_prob_fn
CallBase ==
    /\ cpc = "calling"
    /\ cfn.tag = "base"
    /\ cret' = LogProbN01(cz)
    /\ cpc' = IF cframes = <<>> THEN "done" ELSE "returning"
    /\ UNCHANGED <<cn, cps, ccs, cx, cfwd, cy, cfn, cz, cframes, ctrace>>
    /\ UNCHANGED <<lvars, tvars>>

\* a log_prob_nvp call returns: base_log_prob_fn(x) + ildj
ReturnNvp ==
    /\ cpc = "returning"
    /\ cret' = AddIldj(cret, cframes[Len(cframes)])
    /\ cframes' = SubSeq(cframes, 1, Len(cframes) - 1)
    /\ cpc' = IF Len(cframes) = 1 THEN "done" ELSE "returning"
    /\ UNCHANGED <<cn, cps, ccs, cx, cfwd, cy, cfn, cz, ctrace>>
    /\ UNCHANGED <<lvars, tvars>>

ChainNext ==
    \/ ChainConstruct
    \/ ChainTrained
    \/ ChainSampleCall
    \/ ChainForwardStep
    \/ ChainSampleReturn
    \/ ChainLogProbCall
    \/ CallNvp
    \/ CallBase
    \/ ReturnNvp

\* the sum over the forward calls k..Len(calls) of -sum(log_scale), per row
RECURSIVE SumForwardIldj(_, _, _)
SumForwardIldj(calls, k, rows) ==
    IF k > Len(calls)
    THEN [r \in 1..rows |-> Int2R(0)]
    ELSE LET rest == SumForwardIldj(calls, k + 1, rows)
             ls == calls[k].log_scale
         IN  [r \in 1..rows |-> RAdd(RNeg(SumSeq(ls[r])), rest[r])]

\* C2: with y the result of the forward maps of layers 0..n-1 applied in
\* order to x, log_prob_nvp_chain(ps, configs, base_log_prob_fn, y) is
\* base_log_prob_fn(x) plus the sum over the layers of -sum(log_scale_i),
\* log_scale_i being the log_scale layer i used in the forward pass (n >= 1).
C2_ChangeOfVariables ==
    (cpc = "done" /\ Len(cps) >= 1) =>
        LET base == LogProbN01(cx)
            ildj == SumForwardIldj(cfwd, 1, Len(cx))
        IN  cret = [r \in 1..Len(cx) |-> RAdd(base[r], ildj[r])]

\* a finished evaluation on a trained chain of two or more layers whose
\* Jacobian terms do not cancel
C2_Witness ==
    /\ cpc = "done" /\ Len(cps) >= 2 /\ cps[1] # cps[2]
    /\ cret # LogProbN01(cx)
    /\ cy # cx

\* C3 as stated: the inverse maps are applied in sequence order, layer 0's
\* first on y and layer k's on the output of layer k-1's.
C3_SequenceOrder ==
    cpc = "done" =>
        /\ Len(ctrace) = Len(cps)
        /\ \A j \in 1..Len(ctrace) :
              /\ ctrace[j].p = cps[j]
              /\ ctrace[j].flip = ccs[j][2]
              /\ ctrace[j].in = (IF j = 1 THEN cy ELSE ctrace[j - 1].out)

\* C3, amended: the inverse maps are applied in reverse sequence order: the
\* last layer's inverse is applied first, to y, and the inverse of layer k
\* is applied to the output of the inverse of layer k+1.
C3_ReverseOrder ==
    cpc = "done" =>
        /\ Len(ctrace) = Len(cps)
        /\ \A j \in 1..Len(ctrace) :
              /\ ctrace[j].p = cps[Len(cps) + 1 - j]
              /\ ctrace[j].flip = ccs[Len(cps) + 1 - j][2]
              /\ ctrace[j].in = (IF j = 1 THEN cy ELSE ctrace[j - 1].out)

\* a finished evaluation on three layers with different first and last
\* parameters, every inverse changing its argument
C3_Witness ==
    /\ cpc = "done" /\ Len(cps) = 3 /\ cps[1] # cps[3]
    /\ \A j \in 1..3 : ctrace[j].in # ctrace[j].out

\* C4: init_nvp_chain(n) returns n parameter sets and n configs, for every
\* n >= 0, and the flip of the config at index i (from 0) is False for even
\* i and True for odd i, so consecutive layers never share a flip.
C4_FlipAlternation ==
    cpc # "start" =>
        /\ Len(cps) = cn
        /\ Len(ccs) = cn
        /\ \A k \in 1..Len(ccs) : ccs[k][2] = ((k - 1) % 2 = 1)
        /\ \A k \in 1..(Len(ccs) - 1) : ccs[k][2] # ccs[k + 1][2]

\* a constructed chain of three layers
C4_Witness == cpc = "constructed" /\ cn = 3 /\ Len(ccs) = 3

\* C9 as stated: a chain of length zero is rejected at construction, so
\* nothing runs on an empty chain.
C9_EmptyChainRejected == cn = 0 => cpc \in {"start", "error"}

\* C9, amended: init_nvp_chain(0) returns two empty lists and no error; on
\* that chain sample_nvp_chain returns the base sample unchanged and
\* log_prob_nvp_chain returns base_log_prob_fn(y).
C9_EmptyChainAccepted ==
    (cn = 0 /\ cpc # "start") =>
        /\ cpc # "error"
        /\ cps = <<>> /\ ccs = <<>>
        /\ cpc \in {"sampled", "calling", "done"} => (cy = cx /\ cfwd = <<>>)
        /\ cpc = "done" => (cret = LogProbN01(cy) /\ ctrace = <<>>)

\* a density evaluation that finished on the empty chain
C9_Witness == cn = 0 /\ cpc = "done" /\ cret = LogProbN01(cx)

LayerIdle ==
    /\ lx = None /\ lp = None /\ lflip = FALSE
    /\ lfwd = None /\ linv = None /\ lpc = "idle"

ChainIdle ==
    /\ cn = 0 /\ cps = <<>> /\ ccs = <<>> /\ cx = <<>> /\ cfwd = <<>>
    /\ cy = <<>> /\ cfn = [tag |-> "none"] /\ cz = <<>> /\ cframes = <<>>
    /\ ctrace = <<>> /\ cret = <<>> /\ cpc = "idle"

\* -------------------------------------------------------------- notebook

\* The number of samples drawn for the plots (3000 in the notebook).
NumSamples == 2

\* The largest iteration count.
MaxIters == 3

\* sample_n01(N, D=2): random.normal(rng, (N, D)) is a function of the key
\* and the shape alone; the generator is represented by a small mixing
\* function of the key and the position
SampleN01(key, N) ==
    [r \in 1..N |-> [c \in 1..2 |-> Int2R(((key + 2 * r + c) % 3) - 1)]]

\* The loss of a step is kept by its class: a finite loss is "neg" or "pos"
\* (the measure-zero loss 0 is left out), a diverged one "inf" or "nan".
LossVals == {"neg", "pos", "inf", "nan"}
NonFinite(v) == v \in {"inf", "nan", "-inf"}

\* variant: the logged value is always made finite
Log_NanToNum(v) == "finite"

\* np.log(l) on a loss class: the log of a negative number is nan
Log(v) ==
    CASE v = "pos" -> "finite"
      [] v = "neg" -> "nan"
      [] v = "inf" -> "inf"
      [] v = "nan" -> "nan"

\* The optimizer state.  Adam's moments and the parameters they have moved
\* are functions of the initial parameters and of every update applied so
\* far; the state is kept as exactly that: the initial parameters and the
\* updates in the order they were applied, each with the step index and the
\* gradient it was given.
\* opt_init(ps)
OptInit(params) == [init |-> params, updates |-> <<>>]

\* grad(loss)(params, batch) followed by clip_grads: the gradient is kept as
\* the batch it was computed on
Grad(batch) == [batch |-> batch]

\* opt_update(i, g, opt_state)
OptUpdate(i, g, state) ==
    [init |-> state.init, updates |-> Append(state.updates, [i |-> i, g |-> g])]

\* step(i, opt_state, batch), the loss it computes being of class lv
Step(i, state, batch, lv) == <<OptUpdate(i, Grad(batch), state), lv>>

\* get_params(opt_state): the initial parameters when no update was applied,
\* and otherwise whatever the updates made of them
GetParams(state) ==
    IF state.updates = <<>>
    THEN {state.init}
    ELSE [1..Len(state.init) -> ChainParamSet]

NbInit ==
    /\ rng = PRNGKey(0)
    /\ hp \in [chains : 0..MaxLayers, epochs : 0..MaxIters]
    /\ ndata \in {1, NumSamples}
    /\ noise = <<>>
    /\ gps = <<>>
    /\ gcs = <<>>
    /\ iters = 0
    /\ data_generator = 0
    /\ opt_state = OptInit(<<>>)
    /\ losses = <<>>
    /\ gi = 0
    /\ gl = None
    /\ gy = <<>>
    /\ gk = 0
    /\ values = <<>>
    /\ drawn = <<>>
    /\ pc = "start"

\* variant: the call replaces the global key
AddNoise_AdvancesKey ==
    /\ pc = "start"
    /\ noise' = SampleN01(rng, ndata)
    /\ drawn' = Append(drawn, <<ndata, noise'>>)
    /\ rng' = rng + 1
    /\ pc' = "noised"
    /\ UNCHANGED <<hp, ndata, gps, gcs, iters, data_generator, opt_state,
                   losses, gi, gl, gy, gk, values>>
    /\ UNCHANGED <<lvars, cvars>>

\* noise = sample_n01(X.shape[0])
AddNoise ==
    /\ pc = "start"
    /\ noise' = SampleN01(rng, ndata)
    /\ drawn' = Append(drawn, <<ndata, noise'>>)
    /\ pc' = "noised"
    /\ UNCHANGED <<rng, hp, ndata, gps, gcs, iters, data_generator, opt_state,
                   losses, gi, gl, gy, gk, values>>
    /\ UNCHANGED <<lvars, cvars>>

\* ps, cs = init_nvp_chain(hp['chains'])
Construct ==
    /\ pc = "noised"
    /\ LET r == InitNvpChain(hp.chains, rng)
       IN  gps' = r[1] /\ gcs' = r[2]
    /\ pc' = "constructed"
    /\ UNCHANGED <<rng, hp, ndata, noise, iters, data_generator, opt_state,
                   losses, gi, gl, gy, gk, values, drawn>>
    /\ UNCHANGED <<lvars, cvars>>

\* iters = int(hp['epochs']); data_generator = (... for _ in range(iters));
\* opt_state = opt_init(ps); losses = []
TrainerInit ==
    /\ pc = "constructed"
    /\ iters' = hp.epochs
    /\ data_generator' = 0
    /\ opt_state' = OptInit(gps)
    /\ losses' = <<>>
    /\ gi' = 0
    /\ pc' = "Initialized"
    /\ UNCHANGED <<rng, hp, ndata, noise, gps, gcs, gl, gy, gk, values, drawn>>
    /\ UNCHANGED <<lvars, cvars>>

\* variant: every step starts from opt_init(ps)
TrainStep_StaleState ==
    /\ pc \in {"Initialized", "Training"}
    /\ gi < iters
    /\ data_generator < iters
    /\ \E lv \in LossVals :
          LET r == Step(gi, OptInit(gps), data_generator + 1, lv)
          IN  /\ opt_state' = r[1]
              /\ gl' = r[2]
              /\ losses' = Append(losses, Log(r[2]))
    /\ data_generator' = data_generator + 1
    /\ gi' = gi + 1
    /\ pc' = "Training"
    /\ UNCHANGED <<rng, hp, ndata, noise, gps, gcs, iters, gy, gk, values, drawn>>
    /\ UNCHANGED <<lvars, cvars>>

\* one iteration of the loop over range(iters):
\* opt_state, l = step(i, opt_state, next(data_generator));
\* losses.append(np.log(l))
TrainStep ==
    /\ pc \in {"Initialized", "Training"}
    /\ gi < iters
    /\ data_generator < iters
    /\ \E lv \in LossVals :
          LET r == Step(gi, opt_state, data_generator + 1, lv)
          IN  /\ opt_state' = r[1]
              /\ gl' = r[2]
              /\ losses' = Append(losses, Log(r[2]))
    /\ data_generator' = data_generator + 1
    /\ gi' = gi + 1
    /\ pc' = "Training"
    /\ UNCHANGED <<rng, hp, ndata, noise, gps, gcs, iters, gy, gk, values, drawn>>
    /\ UNCHANGED <<lvars, cvars>>

\* range(iters) is exhausted: ps = get_params(opt_state)
TrainDone ==
    /\ pc \in {"Initialized", "Training"}
    /\ gi >= iters
    /\ gps' \in GetParams(opt_state)
    /\ pc' = "Stopped"
    /\ UNCHANGED <<rng, hp, ndata, noise, gcs, iters, data_generator, opt_state,
                   losses, gi, gl, gy, gk, values, drawn>>
    /\ UNCHANGED <<lvars, cvars>>

\* y = sample_nvp_chain(ps, cs, sample_n01, 3000): x = base_sample_fn(N)
SampleCall ==
    /\ pc = "Stopped"
    /\ gy' = SampleN01(rng, NumSamples)
    /\ drawn' = Append(drawn, <<NumSamples, gy'>>)
    /\ gk' = 0
    /\ pc' = "sampling"
    /\ UNCHANGED <<rng, hp, ndata, noise, gps, gcs, iters, data_generator,
                   opt_state, losses, gi, gl, values>>
    /\ UNCHANGED <<lvars, cvars>>

\* one iteration of the loop of sample_nvp_chain
SampleStep ==
    /\ pc = "sampling"
    /\ gk < Min(Len(gps), Len(gcs))
    /\ gy' = NvpForward(gps[gk + 1], gy, gcs[gk + 1][2])
    /\ gk' = gk + 1
    /\ UNCHANGED <<rng, hp, ndata, noise, gps, gcs, iters, data_generator,
                   opt_state, losses, gi, gl, values, drawn, pc>>
    /\ UNCHANGED <<lvars, cvars>>

\* sample_nvp_chain returns x
SampleReturn ==
    /\ pc = "sampling"
    /\ gk = Min(Len(gps), Len(gcs))
    /\ pc' = "Sampled"
    /\ UNCHANGED <<rng, hp, ndata, noise, gps, gcs, iters, data_generator,
                   opt_state, losses, gi, gl, gy, gk, values, drawn>>
    /\ UNCHANGED <<lvars, cvars>>

\* x = sample_n01(3000); values = [x]
AnimateCall ==
    /\ pc = "Sampled"
    /\ values' = <<SampleN01(rng, NumSamples)>>
    /\ drawn' = Append(drawn, <<NumSamples, values'[1]>>)
    /\ pc' = "animating"
    /\ UNCHANGED <<rng, hp, ndata, noise, gps, gcs, iters, data_generator,
                   opt_state, losses, gi, gl, gy, gk>>
    /\ UNCHANGED <<lvars, cvars>>

\* for p, config in zip(ps, cs): x = nvp_forward(...); values.append(x)
AnimateStep ==
    /\ pc = "animating"
    /\ Len(values) - 1 < Min(Len(gps), Len(gcs))
    /\ LET k == Len(values)
       IN  values' = Append(values, NvpForward(gps[k], values[k], gcs[k][2]))
    /\ UNCHANGED <<rng, hp, ndata, noise, gps, gcs, iters, data_generator,
                   opt_state, losses, gi, gl, gy, gk, drawn, pc>>
    /\ UNCHANGED <<lvars, cvars>>

\* the loop over the layers is over
AnimateDone ==
    /\ pc = "animating"
    /\ Len(values) - 1 = Min(Len(gps), Len(gcs))
    /\ pc' = "Animated"
    /\ UNCHANGED <<rng, hp, ndata, noise, gps, gcs, iters, data_generator,
                   opt_state, losses, gi, gl, gy, gk, values, drawn>>
    /\ UNCHANGED <<lvars, cvars>>

NbNext ==
    \/ AddNoise
    \/ Construct
    \/ TrainerInit
    \/ TrainStep
    \/ TrainDone
    \/ SampleCall
    \/ SampleStep
    \/ SampleReturn
    \/ AnimateCall
    \/ AnimateStep
    \/ AnimateDone

InLoop == pc \in {"Initialized", "Training"}
AfterLoop == pc \in {"Stopped", "sampling", "Sampled", "animating", "Animated"}

\* the steps executed so far are step(0, ...), step(1, ...), ... in that
\* order, the k-th on the k-th batch of the generator, each applied to the
\* state the one before returned
StepsInOrder ==
    \A k \in 1..Len(opt_state.updates) :
        opt_state.updates[k] = [i |-> k - 1, g |-> Grad(k)]

\* C7, the part about every reachable state
C7_Safety ==
    /\ (InLoop \/ AfterLoop) =>
          /\ iters = hp.epochs
          /\ opt_state.init = InitNvpChain(hp.chains, PRNGKey(0))[1]
          /\ StepsInOrder
          /\ Len(opt_state.updates) = gi
          /\ Len(losses) = Len(opt_state.updates)
          /\ gi <= iters
    /\ pc = "Initialized" => gi = 0
    /\ pc = "Training" => gi >= 1
    /\ AfterLoop => Len(opt_state.updates) = iters

\* C7: the training run with iteration count N leaves Initialized, performs
\* step(i, opt_state, batch) for i = 0..N-1 in that order, each call on the
\* state the previous call returned, and reaches Stopped exactly when N
\* steps have been executed; the number of recorded losses always equals the
\* number of executed steps; and the run eventually reaches Stopped.
C7_TrainerStateMachine ==
    /\ []C7_Safety
    /\ [][(InLoop /\ pc' = "Stopped") <=> (InLoop /\ gi = iters)]_vars
    /\ [][(InLoop /\ gi < iters) =>
              /\ pc' = "Training"
              /\ opt_state'.updates =
                     Append(opt_state.updates, [i |-> gi, g |-> Grad(gi + 1)])]_vars
    /\ (pc = "Initialized") ~> (pc = "Stopped")
    /\ <>(pc = "Stopped")

\* a run of three steps has stopped
C7_Witness ==
    /\ pc = "Stopped" /\ iters = 3 /\ Len(losses) = 3
    /\ Len(opt_state.updates) = 3

\* C8 as stated: once a step has returned a non-finite loss the run is
\* terminal: the optimizer state is never updated again.
C8_DivergenceIsTerminal == [][NonFinite(gl) => opt_state' = opt_state]_vars

\* C8, amended: a non-finite loss neither stops the run nor puts it in a
\* state of its own: the loop goes on updating the optimizer state until
\* all N steps are done, as after a finite loss.  The step's non-finite loss
\* shows only as the non-finite entry log(l) it appends to losses (an entry
\* that is nan after a finite negative loss as well).
C8_DivergenceOnlyRecorded ==
    /\ pc \in {"start", "noised", "constructed", "Initialized", "Training", "Stopped",
               "sampling", "Sampled", "animating", "Animated"}
    /\ pc = "Training" =>
          /\ NonFinite(gl) => NonFinite(losses[Len(losses)])
          /\ losses[Len(losses)] = "inf" <=> gl = "inf"
          /\ losses[Len(losses)] = "nan" <=> gl \in {"nan", "neg"}
          /\ losses[Len(losses)] = "finite" <=> gl = "pos"
    /\ (pc = "Training" /\ gi < iters) => ENABLED TrainStep
    /\ (InLoop \/ AfterLoop) => Len(opt_state.updates) = Len(losses)
    /\ AfterLoop => Len(opt_state.updates) = iters

\* the first step diverged and two more updates were applied after it
C8_Witness ==
    /\ pc = "Stopped" /\ Len(losses) = 3 /\ losses[1] = "inf"
    /\ Len(opt_state.updates) = 3
    /\ losses[3] = "finite"

\* C10: the global key rng has the same value in every reachable state.
\* Hence two sample_n01 calls with the same N return the same batch whatever
\* ran in between, and the layers init_nvp_chain creates all start with the
\* same parameters.
C10_KeyNeverAdvances ==
    /\ rng = PRNGKey(0)
    /\ \A a \in 1..Len(drawn) : \A b \in 1..Len(drawn) :
          drawn[a][1] = drawn[b][1] => drawn[a][2] = drawn[b][2]
    /\ \A a \in 1..Len(drawn) : drawn[a][2] = SampleN01(PRNGKey(0), drawn[a][1])
    /\ pc \in {"constructed", "Initialized", "Training"} =>
          \A j \in 1..Len(gps) : gps[j] = NetInit(PRNGKey(0))

\* three sample_n01 calls of the same N, a training run of two steps on a
\* chain of three layers between the first and the second
C10_Witness ==
    /\ pc = "Animated" /\ Len(drawn) = 3
    /\ drawn[1][1] = drawn[2][1] /\ drawn[2][1] = drawn[3][1]
    /\ Len(opt_state.updates) = 2 /\ Len(gps) = 3
    /\ gps[1] # gps[2]

NbIdle ==
    /\ rng = PRNGKey(0) /\ hp = None /\ ndata = 0 /\ noise = <<>>
    /\ gps = <<>> /\ gcs = <<>> /\ iters = 0 /\ data_generator = 0
    /\ opt_state = None /\ losses = <<>> /\ gi = 0 /\ gl = None
    /\ gy = <<>> /\ gk = 0 /\ values = <<>> /\ drawn = <<>> /\ pc = "idle"

\* ---------------------------------------------------------- specifications

InitLayer == LayerInit /\ ChainIdle /\ NbIdle
SpecLayer == InitLayer /\ [][LayerNext]_vars

InitChain == ChainInit /\ LayerIdle /\ NbIdle
SpecChain == InitChain /\ [][ChainNext]_vars

Init == NbInit /\ LayerIdle /\ ChainIdle
Next == NbNext
Spec == Init /\ [][Next]_vars

\* The interpreter runs the cells in order and every loop iteration to its
\* end: no step of the run up to the end of training that can be taken is
\* put off for ever.
FairSpec ==
    /\ Spec
    /\ WF_vars(AddNoise)
    /\ WF_vars(Construct)
    /\ WF_vars(TrainerInit)
    /\ WF_vars(TrainStep)
    /\ WF_vars(TrainDone)

====
